---- MODULE Spec2Model ----
(***************************************************************************)
(* The transcode job pipeline of main.py: video_handler (one Job per       *)
(* incoming video message), VideoEncoder.encode_video / get_video_info,    *)
(* the settings store (Database), callback_handler, and the webhook bridge *)
(* between the Flask thread and the asyncio loop of main().                *)
(*                                                                         *)
(* Every "await" of a handler is a suspension point: an action of the      *)
(* model runs from the completion of one await to the start of the next,   *)
(* which is what the single event loop runs without interleaving.          *)
(***************************************************************************)
EXTENDS Integers, Sequences, FiniteSets, TLC

\* ------------------------------------------------------------------ bounds

MaxJobs == 2        \* video messages handled (message.id = 1..MaxJobs)
MaxLines == 2       \* lines read from the encoder's stdout in one encode
MaxRequests == 2    \* webhook requests received by the Flask thread
MaxErr == 2         \* chunks the encoder's stderr pipe holds while unread
MaxClock == 10      \* the latest clock reading (seconds) of one encode

Jobs == 1..MaxJobs
Requests == 1..MaxRequests

\* ------------------------------------------------------------ value domains

Users == {"u1"}                              \* message.from_user.id
FileNames == {<<"a", ".", "m">>, <<"b">>}    \* message.video.file_name
Qualities == {"720p", "480p"}                \* callback data quality_<q>
ThumbIds == {"t1"}                           \* photo.file_id

None == <<>>                                 \* Python None for path variables
Some(x) == <<x>>

\* QUALITY_PRESETS
QUALITY_PRESETS ==
    [q \in {"720p", "480p", "360p"} |->
        CASE q = "720p" -> [width |-> 1280, height |-> 720]
          [] q = "480p" -> [width |-> 854, height |-> 480]
          [] OTHER -> [width |-> 640, height |-> 360]]

\* Config.DOWNLOAD_DIR, ENCODE_DIR, THUMB_DIR
DOWNLOAD_DIR == "/tmp/downloads/"
ENCODE_DIR == "/tmp/encodes/"
THUMB_DIR == "/tmp/thumbnails/"

\* str(message.id)
IdStr(j) == <<"1", "2", "3", "4", "5", "6", "7", "8", "9">>[j]

\* ------------------------------------------------------------ settings store

\* A settings document: the keys it holds and their values.  "custom_name" is
\* None (<<>>) or Some(name); "thumbnail" is "None" or a file id.
Doc(keys, quality, custom_name, thumbnail) ==
    [keys |-> keys, quality |-> quality, custom_name |-> custom_name,
     thumbnail |-> thumbnail]

AllKeys == {"quality", "custom_name", "thumbnail"}
EmptyDoc == Doc({}, "720p", None, "None")

\* Database.get_user_settings: default_settings
default_settings == Doc(AllKeys, "720p", None, "None")

\* find_one: the stored document, or default_settings (which is then inserted)
get_user_settings(store, u) ==
    IF store[u] = None THEN default_settings ELSE store[u][1]

\* the store after get_user_settings (insert_one of the defaults)
StoreAfterGet(store, u) ==
    IF store[u] = None THEN [store EXCEPT ![u] = Some(default_settings)] ELSE store

\* Database.update_setting: update_one(..., {"$set": {key: value}}, upsert=True)
SetKey(doc, key, value) ==
    CASE key = "quality" -> [doc EXCEPT !.keys = @ \cup {key}, !.quality = value]
      [] key = "thumbnail" -> [doc EXCEPT !.keys = @ \cup {key}, !.thumbnail = value]
      [] OTHER -> [doc EXCEPT !.keys = @ \cup {key}, !.custom_name = value]

update_setting(store, u, key, value) ==
    [store EXCEPT ![u] =
        Some(SetKey(IF store[u] = None THEN EmptyDoc ELSE store[u][1], key, value))]

\* settings.get("thumbnail")
ThumbnailOf(doc) == IF "thumbnail" \in doc.keys THEN doc.thumbnail ELSE "None"

\* ------------------------------------------------------------ file names

RECURSIVE LastIndexOf(_, _, _)
\* str.rfind(c) over s[1..i]: the last position of c, 0 when there is none
LastIndexOf(s, c, i) ==
    IF i = 0 THEN 0
    ELSE IF s[i] = c THEN i ELSE LastIndexOf(s, c, i - 1)

\* the final path component
BaseName(s) ==
    LET i == LastIndexOf(s, "/", Len(s)) IN SubSeq(s, i + 1, Len(s))

\* Path(original_name).stem: the final component without its last suffix; a
\* leading dot or a trailing dot is no suffix
Stem(s) ==
    LET n == BaseName(s)
        i == LastIndexOf(n, ".", Len(n))
    IN  IF 1 < i /\ i < Len(n) THEN SubSeq(n, 1, i - 1) ELSE n

\* an output name built on the whole original name, suffix included
OutputNameKeepsSuffix(original_name, quality, custom_name) ==
    LET base == IF custom_name # None /\ custom_name[1] # <<>>
                THEN custom_name[1] ELSE BaseName(original_name)
    IN  base \o <<"_", quality, ".mp4">>

\* VideoEncoder.generate_output_filename
generate_output_filename(original_name, quality, custom_name) ==
    LET base == IF custom_name # None /\ custom_name[1] # <<>>
                THEN custom_name[1] ELSE Stem(original_name)
    IN  base \o <<"_", quality, ".mp4">>

\* config.DOWNLOAD_DIR / f"{message.id}_{message.video.file_name}"
InputPathOf(j, file_name) == <<DOWNLOAD_DIR>> \o <<IdStr(j), "_">> \o file_name

\* config.ENCODE_DIR / output_filename
OutputPathOf(output_filename) == <<ENCODE_DIR>> \o output_filename

\* config.THUMB_DIR / f"{message.from_user.id}.jpg"
ThumbPathOf(u) == <<THUMB_DIR, u, ".jpg">>

\* ------------------------------------------------------------ scratch storage

\* The scratch file system: the files present, each with the Job whose
\* download or encoder wrote it last.
Exists(files, p) == \E f \in files : f.path = p
Unlink(files, p) == {f \in files : f.path # p}
WriteFile(files, p, j) == Unlink(files, p) \cup {[path |-> p, by |-> j]}

\* ------------------------------------------------------------ probe adapter

\* What ffprobe printed, as eval(result.stdout) sees it: ok is FALSE when the
\* text does not evaluate to a dict (empty or malformed output, a failed run);
\* format and streams are None when the key is absent; a field of them is None
\* when absent.
ProbeOut(ok, format, streams) == [ok |-> ok, format |-> format, streams |-> streams]
Format(duration, size) == [duration |-> duration, size |-> size]
Stream(codec_type, width, height) ==
    [codec_type |-> codec_type, width |-> width, height |-> height]

ProbeOutputs ==
    { ProbeOut(FALSE, None, None),
      ProbeOut(TRUE, Some(Format(Some(4), Some(9))),
               Some(<<Stream("audio", None, None), Stream("video", Some(640), Some(360))>>)),
      ProbeOut(TRUE, Some(Format(None, Some(9))),
               Some(<<Stream("video", Some(640), Some(360))>>)),
      ProbeOut(TRUE, Some(Format(Some(4), Some(9))),
               Some(<<Stream("audio", None, None)>>)) }

ZeroInfo == [duration |-> 0, size |-> 0, width |-> 0, height |-> 0]

\* dict.get(key, 0)
GetOr0(field) == IF field = None THEN 0 ELSE field[1]

RECURSIVE FirstVideo(_, _)
\* the index of the first stream with codec_type == 'video', 0 when none
FirstVideo(streams, i) ==
    IF i > Len(streams) THEN 0
    ELSE IF streams[i].codec_type = "video" THEN i
    ELSE FirstVideo(streams, i + 1)

\* VideoEncoder.get_video_info: every exception ends in the all-zero record
get_video_info(p) ==
    IF ~p.ok \/ p.format = None \/ p.streams = None THEN ZeroInfo
    ELSE LET v == FirstVideo(p.streams[1], 1) IN
         IF v = 0 THEN ZeroInfo
         ELSE [duration |-> GetOr0(p.format[1].duration),
               size |-> GetOr0(p.format[1].size),
               width |-> GetOr0(p.streams[1][v].width),
               height |-> GetOr0(p.streams[1][v].height)]

\* the probe tool failed, printed nothing usable, or left out the duration or
\* the video stream
ProbeFailure(p) ==
    \/ ~p.ok \/ p.format = None \/ p.streams = None
    \/ p.format[1].duration = None
    \/ FirstVideo(p.streams[1], 1) = 0

\* ------------------------------------------------------------ progress stream

\* "if now - last_update >= 5"
MinInterval == 5

\* A line of the encoder's stdout as readline returns it: decodable is FALSE
\* when the bytes are not valid UTF-8; key is the text before the first "=" (the
\* whole text when eq is FALSE, there being no "="); num says whether the text
\* between the first and the second "=" is an integer literal, val its value.
Line(decodable, key, eq, num, val) ==
    [decodable |-> decodable, key |-> key, eq |-> eq, num |-> num, val |-> val]

\* values of out_time_ms (microseconds of output written)
TimeValues == {-1000000, 2000000, 6000000}

ProgressLines ==
    { Line(TRUE, "out_time_ms", TRUE, TRUE, v) : v \in TimeValues }
    \cup { Line(TRUE, "out_time_ms", TRUE, FALSE, 0),     \* out_time_ms=N/A
           Line(TRUE, "frame", TRUE, TRUE, 7),            \* frame=7
           Line(TRUE, "garbage", FALSE, FALSE, 0),        \* no "="
           Line(FALSE, "", FALSE, FALSE, 0) }             \* undecodable bytes

\* line.startswith('out_time_ms=')
StartsWithOutTime(l) == l.key = "out_time_ms" /\ l.eq

\* (current_time / total_duration) * 100 with current_time = time_ms / 1000000,
\* in tenths of a percent as "{percentage:.1f}" prints it
Percentage10(time_ms, total_duration) ==
    (time_ms \div 1000) \div total_duration

\* encode_video before it is called
InitEnc ==
    [pc |-> "idle", quality |-> "", total_duration |-> 0,
     child |-> "none", rc |-> 0, err |-> 0, lines |-> 0,
     clock |-> MinInterval, now |-> 0, last_update |-> 0, pct |-> 0,
     reports |-> <<>>, result |-> "none", fail |-> "", line |-> None,
     probe |-> None, info |-> ZeroInfo]

\* ------------------------------------------------------------------- state

VARIABLES
    job,        \* job[j]: the local state of video_handler for message j
    db,         \* db.settings: user -> None or Some(document)
    fs,         \* the scratch file system
    main_loop,  \* the global main_loop: "None" or "loop"
    main_pc,    \* where the main thread is in __main__ / main()
    req,        \* req[r]: the webhook request r on the Flask thread
    tasks,      \* the coroutines submitted to the event loop, in order
    enc         \* one call of encode_video, its ffmpeg child and the clock

vars == <<job, db, fs, main_loop, main_pc, req, tasks, enc>>
jobVars == <<job, db, fs>>
bridgeVars == <<main_loop, main_pc, req, tasks>>

\* The status of a Job is read off the position of video_handler: Created from
\* the call of the handler; Downloading while message.download runs; Probing
\* from the download's return to the launch of ffmpeg (the output name, the
\* "Encoding Video" edit and get_video_info fall here); Encoding while the
\* ffmpeg child runs; Uploading from encode_video returning True to
\* reply_video returning; Completed once reply_video has returned; Failed in
\* the "if not success" branch and in the except block.  No code sets Cancelled.
Terminal == {"Completed", "Failed", "Cancelled"}
Statuses == {"Created", "Downloading", "Probing", "Encoding", "Uploading"} \cup Terminal

\* video_handler before its message has arrived
InitJob ==
    [pc |-> "idle", status |-> "None", user |-> "", file_name |-> <<>>,
     settings |-> EmptyDoc, input_path |-> None, output_path |-> None,
     thumb_path |-> None, output_filename |-> <<>>, total_duration |-> 0,
     proc |-> "none", lines |-> 0, last_update |-> 0, success |-> FALSE,
     shown |-> "", error |-> "", raised |-> FALSE,
     thumb_id |-> "None",
     \* what happened to the Job, kept for the properties
     faulted |-> FALSE, probe_failed |-> FALSE, reported |-> FALSE, db_reads |-> 0,
     run_quality |-> "", sent_thumb |-> None, rm_fault |-> FALSE,
     cancel_at |-> "None"]

\* documents the settings collection may hold when the process starts
InitDocs ==
    { None,
      Some(Doc(AllKeys, "480p", Some(<<"t">>), "t1")),
      Some(Doc(AllKeys, "1080p", None, "None")) }

InitReq ==
    [pc |-> "none", json |-> FALSE, saw_loop |-> FALSE, submitted |-> FALSE,
     acked |-> FALSE, started |-> FALSE, ended |-> "", read |-> None]

Init ==
    /\ job = [j \in Jobs |-> InitJob]
    /\ db \in [Users -> InitDocs]
    /\ fs = {}
    /\ main_loop = "None"
    /\ main_pc = "start"
    /\ req = [r \in Requests |-> InitReq]
    /\ tasks = <<>>
    /\ enc = InitEnc

\* ------------------------------------------------------------ video_handler

\* get_video_info runs ffprobe with subprocess.run, a blocking call on the
\* event loop's thread: while a handler is in it the loop runs nothing else
LoopFree(j) == \A i \in Jobs : i # j => job[i].pc # "probe"
LoopIdle == \A i \in Jobs : job[i].pc # "probe"

\* video_handler j moves on, which takes the event loop; the bridge is not
\* touched
SetJob(j, jr) ==
    /\ LoopFree(j)
    /\ job' = [job EXCEPT ![j] = jr]
    /\ UNCHANGED <<bridgeVars, enc>>

\* "except Exception as e" of video_handler: the exception is logged and the
\* handler goes on to report it with status_msg.edit_text
Raise(jr, kind) ==
    [jr EXCEPT !.pc = "except", !.status = "Failed", !.error = kind,
               !.faulted = TRUE]

\* the unlink calls an injected removal fault may hit
RmFaults == {"none", "input", "output", "thumb"}

\* a finally block that removes the input file only
CleanupInputOnly(files, jr, failAt) ==
    LET inE == Exists(files, jr.input_path)
        stop1 == inE /\ failAt = "input"
    IN  [files |-> IF inE /\ ~stop1 THEN Unlink(files, jr.input_path) ELSE files,
         raised |-> stop1]

\* The finally block of video_handler: each path variable that is set and
\* whose file exists is unlinked, in the order input, output, thumbnail; an
\* unlink that raises (failAt) ends the block there.
Cleanup(files, jr, failAt) ==
    LET inE == Exists(files, jr.input_path)
        stop1 == inE /\ failAt = "input"
        f1 == IF inE /\ ~stop1 THEN Unlink(files, jr.input_path) ELSE files
        outE == ~stop1 /\ Exists(f1, jr.output_path)
        stop2 == stop1 \/ (outE /\ failAt = "output")
        f2 == IF outE /\ ~stop2 THEN Unlink(f1, jr.output_path) ELSE f1
        thE == ~stop2 /\ Exists(f2, jr.thumb_path)
        stop3 == stop2 \/ (thE /\ failAt = "thumb")
        f3 == IF thE /\ ~stop3 THEN Unlink(f2, jr.thumb_path) ELSE f2
    IN  [files |-> f3, raised |-> stop3]

\* video_handler returns (or raises `pending`) through its finally block
Finish(j, jr, pending, failAt) ==
    LET c == Cleanup(fs, jr, failAt) IN
    /\ fs' = c.files
    /\ SetJob(j, [jr EXCEPT !.pc = "done",
                            !.raised = pending \/ c.raised,
                            !.rm_fault = c.raised,
                            !.faulted = @ \/ c.raised])

\* A video message arrives: the dispatcher calls video_handler, which calls
\* message.reply_text.
Receive(j) ==
    /\ job[j].pc = "idle"
    /\ \A i \in Jobs : i < j => job[i].pc # "idle"
    /\ \E u \in Users, f \in FileNames :
         SetJob(j, [job[j] EXCEPT !.pc = "reply", !.status = "Created",
                                  !.user = u, !.file_name = f])
    /\ UNCHANGED <<db, fs>>

\* message.reply_text returns the status message, or raises before the try
ReplyInit(j) ==
    /\ job[j].pc = "reply"
    /\ \E ok \in BOOLEAN :
         IF ok
         THEN SetJob(j, [job[j] EXCEPT !.pc = "settings", !.shown = "Initializing"])
         ELSE SetJob(j, [job[j] EXCEPT !.pc = "done", !.raised = TRUE,
                                       !.faulted = TRUE])
    /\ UNCHANGED <<db, fs>>

\* settings = await db.get_user_settings(...), then status_msg.edit_text is called
GetSettings(j) ==
    /\ job[j].pc = "settings"
    /\ \E ok \in BOOLEAN :
         IF ok
         THEN /\ SetJob(j, [job[j] EXCEPT !.pc = "edit_dl",
                               !.settings = get_user_settings(db, job[j].user),
                               !.db_reads = @ + 1])
              /\ db' = StoreAfterGet(db, job[j].user)
         ELSE /\ SetJob(j, Raise(job[j], "Settings"))
              /\ db' = db
    /\ fs' = fs

\* edit_text("Downloading Video") returns; input_path is set and
\* message.download is called
EditDownloading(j) ==
    /\ job[j].pc = "edit_dl"
    /\ \E ok \in BOOLEAN :
         IF ok
         THEN SetJob(j, [job[j] EXCEPT !.pc = "download", !.shown = "Downloading",
                            !.status = "Downloading",
                            !.input_path = InputPathOf(j, job[j].file_name)])
         ELSE SetJob(j, Raise(job[j], "Report"))
    /\ UNCHANGED <<db, fs>>

\* the output name and path from the settings read at the start of the handler;
\* settings['quality'] or settings['custom_name'] of a document without the
\* key raises KeyError
NamePlan(jr) ==
    IF {"quality", "custom_name"} \subseteq jr.settings.keys
    THEN LET name == generate_output_filename(jr.file_name, jr.settings.quality,
                                              jr.settings.custom_name)
         IN  [jr EXCEPT !.pc = "edit_enc", !.status = "Probing",
                        !.output_filename = name,
                        !.output_path = OutputPathOf(name)]
    ELSE Raise(jr, "KeyError")

\* message.download returns (the input file is on disk) or raises (a partial
\* file may be left); on success the output path is derived and
\* edit_text("Encoding Video") is called
Download(j) ==
    /\ job[j].pc = "download"
    /\ \E ok \in BOOLEAN, written \in BOOLEAN :
         /\ ok => written
         /\ fs' = IF written THEN WriteFile(fs, job[j].input_path, j) ELSE fs
         /\ IF ok
            THEN SetJob(j, NamePlan(job[j]))
            ELSE SetJob(j, Raise(job[j], "Transfer"))
    /\ db' = db

\* encode_video returned False: "if not success" calls edit_text("Encoding failed!")
EncodeFailed(jr) ==
    [jr EXCEPT !.pc = "edit_failed", !.success = FALSE, !.status = "Failed",
               !.error = "Encode"]

\* encode_video returned True: db.get_thumbnail is called
EncodeOk(jr) ==
    [jr EXCEPT !.pc = "get_thumb", !.success = TRUE, !.status = "Uploading"]

\* the quality label looked up in the store again when the encode starts
EncodeQualityReread(jr) == get_user_settings(db, jr.user).quality

\* the quality label video_handler passes to encode_video
EncodeQuality(jr) == jr.settings.quality

\* an encode_video in which a failed probe is an error of the encode
EncodeStartProbeFatal(jr, p) ==
    LET q == EncodeQuality(jr) IN
    IF q \notin DOMAIN QUALITY_PRESETS
    THEN EncodeFailed([jr EXCEPT !.run_quality = q, !.faulted = TRUE])
    ELSE IF ProbeFailure(p)
    THEN EncodeFailed([jr EXCEPT !.run_quality = q, !.probe_failed = TRUE])
    ELSE [jr EXCEPT !.pc = "spawn", !.run_quality = q,
                    !.total_duration = get_video_info(p).duration,
                    !.probe_failed = ProbeFailure(p)]

\* encode_video up to create_subprocess_exec: the preset lookup (KeyError is
\* caught and gives False) and get_video_info, which runs ffprobe to its end
\* without suspending
EncodeStart(jr, p) ==
    LET q == EncodeQuality(jr) IN
    IF q \notin DOMAIN QUALITY_PRESETS
    THEN EncodeFailed([jr EXCEPT !.run_quality = q, !.faulted = TRUE])
    ELSE [jr EXCEPT !.pc = "spawn", !.run_quality = q,
                    !.total_duration = get_video_info(p).duration,
                    !.probe_failed = ProbeFailure(p)]

\* encode_video is called: with a known quality label it goes into
\* get_video_info, whose subprocess.run starts ffprobe and blocks
EncodeCalled(jr) ==
    IF EncodeQuality(jr) \notin DOMAIN QUALITY_PRESETS
    THEN EncodeStart(jr, ProbeOut(FALSE, None, None))
    ELSE [jr EXCEPT !.pc = "probe"]

\* edit_text("Encoding Video") returns; encode_video is called
EditEncoding(j) ==
    /\ job[j].pc = "edit_enc"
    /\ \E ok \in BOOLEAN :
         IF ok
         THEN SetJob(j, EncodeCalled([job[j] EXCEPT !.shown = "Encoding"]))
         ELSE SetJob(j, Raise(job[j], "Report"))
    /\ UNCHANGED <<db, fs>>

\* subprocess.run returns with what ffprobe printed; encode_video goes on to
\* create_subprocess_exec
Probe(j) ==
    /\ job[j].pc = "probe"
    /\ \E p \in ProbeOutputs : SetJob(j, EncodeStart(job[j], p))
    /\ UNCHANGED <<db, fs>>

\* create_subprocess_exec returns the running ffmpeg (which opens its output
\* file with -y unless it fails on its input first) or raises, which
\* encode_video catches and turns into False
Spawn(j) ==
    /\ job[j].pc = "spawn"
    /\ \E ok \in BOOLEAN, opens \in BOOLEAN :
         /\ ~ok => ~opens
         /\ fs' = IF opens THEN WriteFile(fs, job[j].output_path, j) ELSE fs
         /\ IF ok
            THEN SetJob(j, [job[j] EXCEPT !.pc = "read", !.status = "Encoding",
                               !.proc = IF opens THEN "running" ELSE "running_noout",
                               !.last_update = 0])
            ELSE SetJob(j, EncodeFailed([job[j] EXCEPT !.faulted = TRUE]))
    /\ db' = db

\* one line of the progress stream: an out_time_ms line with a known total
\* duration, five seconds after the last update (always so for the first,
\* last_update being 0), edits the status message; a failing edit is swallowed
ProgressLine(jr, due, ok) ==
    IF jr.total_duration > 0 /\ (jr.last_update = 0 \/ due)
    THEN IF ok THEN [jr EXCEPT !.lines = @ + 1, !.reported = TRUE, !.last_update = 1]
               ELSE [jr EXCEPT !.lines = @ + 1]
    ELSE [jr EXCEPT !.lines = @ + 1]

\* process.stdout.readline returns a line, or b"" at end of stream; a line
\* that line.decode() cannot decode raises out of the loop, and encode_video
\* returns False with the child still running
ReadLine(j) ==
    /\ job[j].pc = "read"
    /\ \/ /\ job[j].lines < MaxLines
          /\ \E progress \in BOOLEAN, due \in BOOLEAN, ok \in BOOLEAN :
               SetJob(j, IF progress THEN ProgressLine(job[j], due, ok)
                         ELSE [job[j] EXCEPT !.lines = @ + 1])
       \/ /\ job[j].lines < MaxLines
          /\ SetJob(j, EncodeFailed([job[j] EXCEPT !.lines = 0, !.last_update = 0,
                                                   !.faulted = TRUE]))
       \/ SetJob(j, [job[j] EXCEPT !.pc = "wait", !.lines = 0, !.last_update = 0])
    /\ UNCHANGED <<db, fs>>

\* process.wait returns: encode_video returns returncode == 0
Wait(j) ==
    /\ job[j].pc = "wait"
    /\ \E rc \in {0, 1} :
         /\ rc = 0 => job[j].proc = "running"
         /\ IF rc = 0
            THEN SetJob(j, EncodeOk([job[j] EXCEPT !.proc = "exit0"]))
            ELSE SetJob(j, EncodeFailed([job[j] EXCEPT !.proc = "exit1",
                                                       !.faulted = TRUE]))
    /\ UNCHANGED <<db, fs>>

\* edit_text("Encoding failed!") returns and the handler returns, or raises
EditFailed(j) ==
    /\ job[j].pc = "edit_failed"
    /\ \E ok \in BOOLEAN, failAt \in RmFaults :
         IF ok
         THEN Finish(j, [job[j] EXCEPT !.shown = "EncodingFailed"], FALSE, failAt)
         ELSE SetJob(j, Raise(job[j], "Report")) /\ fs' = fs
    /\ db' = db

\* thumb_id = await db.get_thumbnail(...): the settings document is read again
GetThumb(j) ==
    /\ job[j].pc = "get_thumb"
    /\ \E ok \in BOOLEAN :
         IF ok
         THEN LET thumb_id == ThumbnailOf(get_user_settings(db, job[j].user)) IN
              /\ SetJob(j, IF thumb_id # "None"
                           THEN [job[j] EXCEPT !.pc = "dl_thumb", !.db_reads = @ + 1,
                                    !.thumb_id = thumb_id,
                                    !.thumb_path = ThumbPathOf(job[j].user)]
                           ELSE [job[j] EXCEPT !.pc = "edit_up", !.db_reads = @ + 1])
              /\ db' = StoreAfterGet(db, job[j].user)
         ELSE SetJob(j, Raise(job[j], "Settings")) /\ db' = db
    /\ fs' = fs

\* client.download_media(thumb_id, ...) returns or raises
DownloadThumb(j) ==
    /\ job[j].pc = "dl_thumb"
    /\ \E ok \in BOOLEAN, written \in BOOLEAN :
         /\ ok => written
         /\ fs' = IF written THEN WriteFile(fs, job[j].thumb_path, j) ELSE fs
         /\ IF ok
            THEN SetJob(j, [job[j] EXCEPT !.pc = "edit_up"])
            ELSE SetJob(j, Raise(job[j], "Transfer"))
    /\ db' = db

\* edit_text("Uploading") returns; the caption needs output_path.stat(), which
\* raises when the file is gone; message.reply_video is called
EditUploading(j) ==
    /\ job[j].pc = "edit_up"
    /\ \E ok \in BOOLEAN :
         IF ~ok THEN SetJob(j, Raise(job[j], "Report"))
         ELSE IF ~Exists(fs, job[j].output_path)
         THEN SetJob(j, Raise([job[j] EXCEPT !.shown = "Uploading"], "FileNotFound"))
         ELSE SetJob(j, [job[j] EXCEPT !.pc = "upload", !.shown = "Uploading",
                            !.sent_thumb = IF Exists(fs, job[j].thumb_path)
                                           THEN job[j].thumb_path ELSE None])
    /\ UNCHANGED <<db, fs>>

\* message.reply_video returns (the result is delivered) or raises
Upload(j) ==
    /\ job[j].pc = "upload"
    /\ \E ok \in BOOLEAN :
         IF ok
         THEN SetJob(j, [job[j] EXCEPT !.pc = "delete", !.status = "Completed"])
         ELSE SetJob(j, Raise(job[j], "Transfer"))
    /\ UNCHANGED <<db, fs>>

\* status_msg.delete() returns and the handler ends, or raises
DeleteStatus(j) ==
    /\ job[j].pc = "delete"
    /\ \E ok \in BOOLEAN, failAt \in RmFaults :
         IF ok
         THEN Finish(j, [job[j] EXCEPT !.shown = "Deleted"], FALSE, failAt)
         ELSE SetJob(j, Raise(job[j], "Report")) /\ fs' = fs
    /\ db' = db

\* the except block's edit_text("Error: ...") returns, or raises out of the
\* handler; the finally block runs either way
ExceptEdit(j) ==
    /\ job[j].pc = "except"
    /\ \E ok \in BOOLEAN, failAt \in RmFaults :
         IF ok
         THEN Finish(j, [job[j] EXCEPT !.shown = "Error"], FALSE, failAt)
         ELSE Finish(j, [job[j] EXCEPT !.faulted = TRUE], TRUE, failAt)
    /\ db' = db

\* ------------------------------------------------------------ callback_handler

\* data == "cancel": callback.answer("Operation cancelled") and nothing else;
\* cancel_at records the status the Job had when its Cancel button was pressed
Cancel(j) ==
    /\ job[j].pc \notin {"idle", "reply", "done"}
    /\ job[j].status \notin Terminal
    /\ job[j].cancel_at = "None"
    /\ SetJob(j, [job[j] EXCEPT !.cancel_at = job[j].status])
    /\ UNCHANGED <<db, fs>>

\* data.startswith("quality_"): db.update_setting(user_id, "quality", quality)
CallbackQuality(u, q) ==
    /\ LoopIdle
    /\ db' = update_setting(db, u, "quality", q)
    /\ UNCHANGED <<job, fs, bridgeVars, enc>>

\* set_thumbnail_handler, delete_thumbnail_handler, data == "clear_thumb":
\* db.set_thumbnail(user_id, file_id or None)
SetThumbnail(u, t) ==
    /\ LoopIdle
    /\ db' = update_setting(db, u, "thumbnail", t)
    /\ UNCHANGED <<job, fs, bridgeVars, enc>>

\* ------------------------------------------------------------ webhook bridge

\* __main__: flask_thread.start(), before asyncio.run(main())
StartFlask ==
    /\ main_pc = "start"
    /\ main_pc' = "flask"
    /\ UNCHANGED <<main_loop, req, tasks>>
    /\ UNCHANGED <<jobVars, enc>>

\* main(): main_loop = asyncio.get_event_loop(); the loop then runs
SetMainLoop ==
    /\ main_pc = "flask"
    /\ main_loop' = "loop"
    /\ main_pc' = "running"
    /\ UNCHANGED <<req, tasks>>
    /\ UNCHANGED <<jobVars, enc>>

\* a POST reaches telegram_webhook_handler on a Flask thread, with or without
\* a JSON payload
Arrive(r) ==
    /\ main_pc # "start"
    /\ req[r].pc = "none"
    /\ \A i \in Requests : i < r => req[i].pc # "none"
    /\ \E json \in BOOLEAN :
         req' = [req EXCEPT ![r] = [@ EXCEPT !.pc = "check", !.json = json]]
    /\ UNCHANGED <<main_loop, main_pc, tasks>>
    /\ UNCHANGED <<jobVars, enc>>

\* a handler that submits whenever there is a payload
WebhookCheckNoGuard(r) ==
    /\ req[r].pc = "check"
    /\ req' = [req EXCEPT ![r] =
                 [@ EXCEPT !.saw_loop = main_loop # "None",
                           !.pc = IF req[r].json THEN "submit" ELSE "return"]]
    /\ UNCHANGED <<main_loop, main_pc, tasks>>
    /\ UNCHANGED <<jobVars, enc>>

\* if request.json and main_loop:
WebhookCheck(r) ==
    /\ req[r].pc = "check"
    /\ req' = [req EXCEPT ![r] =
                 [@ EXCEPT !.saw_loop = main_loop # "None",
                           !.pc = IF req[r].json /\ main_loop # "None"
                                  THEN "submit" ELSE "return"]]
    /\ UNCHANGED <<main_loop, main_pc, tasks>>
    /\ UNCHANGED <<jobVars, enc>>

\* asyncio.run_coroutine_threadsafe(process_update(), main_loop)
WebhookSubmit(r) ==
    /\ req[r].pc = "submit"
    /\ tasks' = Append(tasks, r)
    /\ req' = [req EXCEPT ![r] = [@ EXCEPT !.pc = "return", !.submitted = TRUE]]
    /\ UNCHANGED <<main_loop, main_pc>>
    /\ UNCHANGED <<jobVars, enc>>

\* a handler that waits for the result of the submitted coroutine
WebhookReturnWaits(r) ==
    /\ req[r].pc = "return"
    /\ req[r].submitted => req[r].ended # ""
    /\ req' = [req EXCEPT ![r] = [@ EXCEPT !.pc = "done", !.acked = TRUE]]
    /\ UNCHANGED <<main_loop, main_pc, tasks>>
    /\ UNCHANGED <<jobVars, enc>>

\* return "OK", 200
WebhookReturn(r) ==
    /\ req[r].pc = "return"
    /\ req' = [req EXCEPT ![r] = [@ EXCEPT !.pc = "done", !.acked = TRUE]]
    /\ UNCHANGED <<main_loop, main_pc, tasks>>
    /\ UNCHANGED <<jobVars, enc>>

\* the payload of request r
PayloadOf(r) == r

\* a request.json that resolves to a request the Flask side is serving now
RequestJsonOfServed(r, carried) ==
    LET served == {k \in Requests : k # r /\ req[k].pc \in {"check", "submit", "return"}}
    IN  IF served # {} THEN Some(PayloadOf(CHOOSE k \in served : TRUE))
        ELSE IF carried THEN Some(PayloadOf(r)) ELSE None

\* request.json inside process_update, evaluated on the event loop's thread
\* through Flask's context-local proxy.  run_coroutine_threadsafe was called
\* in the handler of request r: where the request context is carried along
\* with the submission the proxy resolves to request r, whose JSON was parsed
\* and cached by the test "if request.json"; where the request context stays
\* with the Flask thread there is none here and the access raises (None).
RequestJson(r, carried) == IF carried THEN Some(PayloadOf(r)) ELSE None

\* the event loop runs the next submitted process_update(), which evaluates
\* request.json and calls app.handle_incoming_json with it
RunTask ==
    /\ main_pc = "running"
    /\ tasks # <<>>
    /\ \E carried \in BOOLEAN :
         LET r == Head(tasks)
             v == RequestJson(r, carried)
         IN  req' = [req EXCEPT ![r] =
                        [@ EXCEPT !.started = TRUE, !.read = v,
                                  !.ended = IF v = None THEN "failed" ELSE ""]]
    /\ tasks' = Tail(tasks)
    /\ UNCHANGED <<main_loop, main_pc>>
    /\ UNCHANGED <<jobVars, enc>>

\* ------------------------------------------------------------ encode_video

\* One call of encode_video with its ffmpeg child, line by line.  The steps
\* EncodeStart, Spawn, ReadLine and Wait of video_handler above are these
\* steps without the content of the lines and without the clock.

EncStep(er) ==
    /\ enc' = er
    /\ UNCHANGED <<jobVars, bridgeVars>>

\* an encode_video whose handler lets the exception through to its caller
EncCatchReraise(er, kind) ==
    [er EXCEPT !.pc = "returned", !.result = "raised", !.fail = kind]

\* "except Exception as e" of encode_video: logger.error and return False
EncCatch(er, kind) ==
    [er EXCEPT !.pc = "returned", !.result = "False", !.fail = kind]

\* encode_video is called: QUALITY_PRESETS[quality] (KeyError for an unknown
\* label), get_video_info, and the call of create_subprocess_exec
EncodeCall ==
    /\ enc.pc = "idle"
    /\ \E q \in Qualities \cup {"1080p"}, p \in ProbeOutputs :
         EncStep(IF q \notin DOMAIN QUALITY_PRESETS
                 THEN EncCatch([enc EXCEPT !.quality = q], "quality")
                 ELSE [enc EXCEPT !.pc = "spawn", !.quality = q,
                                  !.probe = Some(p), !.info = get_video_info(p),
                                  !.total_duration = get_video_info(p).duration])

\* create_subprocess_exec returns the running child, or raises (no ffmpeg
\* binary, no memory); start_time and last_update = 0 follow; info is not
\* used again
EncSpawn ==
    /\ enc.pc = "spawn"
    /\ \E ok \in BOOLEAN :
         LET e1 == [enc EXCEPT !.probe = None, !.info = ZeroInfo] IN
         EncStep(IF ok
                 THEN [e1 EXCEPT !.pc = "read", !.child = "running",
                                 !.last_update = 0]
                 ELSE EncCatch(e1, "launch"))

\* the body of the while loop for one line, up to the next await
OnLine(er, l) ==
    LET e1 == [er EXCEPT !.lines = @ + 1, !.line = Some(l)] IN
    IF ~l.decodable THEN EncCatch(e1, "decode")        \* line.decode() raises
    ELSE IF ~StartsWithOutTime(l) THEN e1
    ELSE IF ~l.num THEN e1                            \* int() raises: except: pass
    ELSE IF er.total_duration > 0 /\ er.clock - er.last_update >= MinInterval
    THEN [e1 EXCEPT !.pc = "edit", !.now = er.clock,
                    !.pct = Percentage10(l.val, er.total_duration)]
    ELSE e1

\* process.stdout.readline returns: a line the child has written, or b"" once
\* the child has exited and closed its stdout
EncReadline ==
    /\ enc.pc = "read"
    /\ \/ /\ enc.child = "running"
          /\ enc.lines < MaxLines
          /\ \E l \in ProgressLines : EncStep(OnLine(enc, l))
       \/ /\ enc.child = "exited"
          /\ EncStep([enc EXCEPT !.pc = "wait"])

\* progress_msg.edit_text returns, then last_update = now; or it raises, which
\* the bare except swallows before last_update is assigned
EncEdit ==
    /\ enc.pc = "edit"
    /\ \E ok \in BOOLEAN :
         EncStep([enc EXCEPT !.pc = "read",
                     !.reports = Append(@, [at |-> enc.now, pct |-> enc.pct,
                                            ok |-> ok]),
                     !.last_update = IF ok THEN enc.now ELSE @])

\* process.wait returns; return process.returncode == 0
EncWait ==
    /\ enc.pc = "wait"
    /\ enc.child = "exited"
    /\ EncStep([enc EXCEPT !.pc = "returned",
                   !.result = IF enc.rc = 0 THEN "True" ELSE "False"])

\* the child writes diagnostics to its stderr, a pipe (stderr=PIPE) that
\* encode_video never reads: once the pipe is full the write blocks for good
ChildStderr ==
    /\ enc.child = "running"
    /\ EncStep(IF enc.err < MaxErr THEN [enc EXCEPT !.err = @ + 1]
               ELSE [enc EXCEPT !.child = "blocked"])

\* the child exits
ChildExit ==
    /\ enc.child = "running"
    /\ \E rc \in {0, 1} : EncStep([enc EXCEPT !.child = "exited", !.rc = rc])

\* time.time() moves on
Tick ==
    /\ enc.pc \in {"read", "edit"}
    /\ \E d \in {1, MinInterval} :
         /\ enc.clock + d <= MaxClock
         /\ EncStep([enc EXCEPT !.clock = @ + d])

\* process_update() ends: app.handle_incoming_json returned or raised
EndTask(r) ==
    /\ req[r].started
    /\ req[r].ended = ""
    /\ \E outcome \in {"ok", "failed"} :
         req' = [req EXCEPT ![r] = [@ EXCEPT !.ended = outcome]]
    /\ UNCHANGED <<main_loop, main_pc, tasks>>
    /\ UNCHANGED <<jobVars, enc>>

\* ------------------------------------------------------------ specifications

\* video_handler without the Cancel button
JobRun(j) ==
    \/ Receive(j) \/ ReplyInit(j) \/ GetSettings(j) \/ EditDownloading(j)
    \/ Download(j) \/ EditEncoding(j) \/ Probe(j) \/ Spawn(j) \/ ReadLine(j) \/ Wait(j)
    \/ EditFailed(j) \/ GetThumb(j) \/ DownloadThumb(j) \/ EditUploading(j)
    \/ Upload(j) \/ DeleteStatus(j) \/ ExceptEdit(j)

\* One Job, with its Cancel button and the settings callbacks of its owner
\* arriving at any of its suspension points.
Next ==
    \/ JobRun(1)
    \/ Cancel(1)
    \/ \E u \in Users, q \in Qualities : CallbackQuality(u, q)
    \/ \E u \in Users, t \in ThumbIds \cup {"None"} : SetThumbnail(u, t)

Spec == Init /\ [][Next]_vars

\* Concurrent Jobs on the one event loop, interleaved at their suspension points.
NextJobs == \E j \in Jobs : JobRun(j)

SpecJobs == Init /\ [][NextJobs]_vars

\* The Flask thread and the main thread.
NextBridge ==
    \/ StartFlask
    \/ SetMainLoop
    \/ \E r \in Requests :
         Arrive(r) \/ WebhookCheck(r) \/ WebhookSubmit(r) \/ WebhookReturn(r)
    \/ RunTask
    \/ \E r \in Requests : EndTask(r)

SpecBridge == Init /\ [][NextBridge]_vars

\* One call of encode_video, its child and the clock.
NextEncode ==
    \/ EncodeCall \/ EncSpawn \/ EncReadline \/ EncEdit \/ EncWait
    \/ ChildStderr \/ ChildExit \/ Tick

SpecEncode == Init /\ [][NextEncode]_vars

\* ------------------------------------------------------------ properties

NonTerminal == Statuses \ Terminal
InFlight(j) == job[j].pc \notin {"idle", "done"}
CreatedBy(j) == {f \in fs : f.by = j}

AllowedTransitions ==
    { <<"None", "Created">>, <<"Created", "Downloading">>,
      <<"Downloading", "Probing">>, <<"Probing", "Encoding">>,
      <<"Encoding", "Uploading">>, <<"Uploading", "Completed">> }
    \cup (NonTerminal \X {"Failed", "Cancelled"})

\* C2: every change of a Job's status is a step of the fixed order Created,
\* Downloading, Probing, Encoding, Uploading, Completed, or a step from a
\* non-terminal status to Failed or Cancelled.
C2_StatusOrder ==
    [][\A j \in Jobs :
          job'[j].status # job[j].status =>
              <<job[j].status, job'[j].status>> \in AllowedTransitions]_vars

\* C3: after the Cancel button of a Job was pressed in a non-terminal status, the
\* Job is Cancelled, or is still in the status it was cancelled in and about to
\* become Cancelled; it starts no further stage and never completes.
C3_CancelStopsJob ==
    \A j \in Jobs :
        job[j].cancel_at # "None" =>
            \/ job[j].status = "Cancelled"
            \/ job[j].status = job[j].cancel_at /\ job[j].pc # "done"

\* C4: a Job cancelled while Encoding does not see its encoder exit by itself,
\* and ends Cancelled with nothing of it left on scratch storage.
C4_CancelKillsEncoder ==
    \A j \in Jobs :
        job[j].cancel_at = "Encoding" =>
            /\ job[j].proc \notin {"exit0", "exit1"}
            /\ job[j].pc = "done" =>
                   job[j].status = "Cancelled" /\ CreatedBy(j) = {}

\* C5: a webhook request with a payload that found main_loop unset is, once
\* acknowledged, submitted to the event loop.
C5_EarlyRequestNotLost ==
    \A r \in Requests :
        (req[r].acked /\ req[r].json /\ ~req[r].saw_loop) => req[r].submitted

\* C6: once the encoder has exited non-zero the Job is Failed with kind Encode,
\* and when the handler has ended (no unlink having raised) neither its input
\* nor its output path exists.
C6_EncoderFailureEndsFailedEncode ==
    \A j \in Jobs :
        job[j].proc = "exit1" =>
            /\ job[j].status = "Failed" /\ job[j].error = "Encode"
            /\ (job[j].pc = "done" /\ ~job[j].rm_fault) =>
                   ~Exists(fs, job[j].input_path) /\ ~Exists(fs, job[j].output_path)

\* C7: a failed probe leaves the Job without a total duration and without any
\* progress update, and never fails it: unless some other call fails or the
\* encoder fails, the Job is not Failed and ends Completed.
C7_ProbeFailureNotFatal ==
    \A j \in Jobs :
        job[j].probe_failed =>
            /\ job[j].total_duration = 0 /\ ~job[j].reported
            /\ ~job[j].faulted => job[j].status # "Failed"
            /\ (job[j].pc = "done" /\ ~job[j].faulted) => job[j].status = "Completed"

\* a Job whose probe failed has been delivered
C7_Witness ==
    \E j \in Jobs :
        /\ job[j].probe_failed /\ job[j].pc = "done"
        /\ job[j].status = "Completed" /\ job[j].proc = "exit0"

\* the scratch paths a Job has set
PathsOf(j) == {job[j].input_path, job[j].output_path, job[j].thumb_path} \ {None}

\* C8: two distinct Jobs in flight at the same time share no scratch path.
C8_PathsDisjoint ==
    \A i, j \in Jobs :
        (i # j /\ InFlight(i) /\ InFlight(j)) => PathsOf(i) \cap PathsOf(j) = {}

\* the Job has the thumbnail id of its second read of the store in hand
HasThumbId(j) == job[j].pc \in {"dl_thumb", "edit_up", "upload", "delete"}

\* C9 as stated: a Job reads the settings store once, and what it uploads with
\* is what the store held at that read.
C9_SettingsReadOnce ==
    \A j \in Jobs :
        /\ job[j].db_reads <= 1
        /\ HasThumbId(j) => job[j].thumb_id = ThumbnailOf(job[j].settings)

\* C9 as amended: the quality the encoder is run with and the output name and
\* path are those of the settings document read at the start of the handler,
\* whatever the store holds by then; the store is read at most once more, for
\* the thumbnail.
C9_ProfileSnapshot ==
    \A j \in Jobs :
        /\ job[j].run_quality # "" => job[j].run_quality = job[j].settings.quality
        /\ job[j].output_filename # <<>> =>
              /\ job[j].output_filename =
                     generate_output_filename(job[j].file_name,
                         job[j].settings.quality, job[j].settings.custom_name)
              /\ job[j].output_path = OutputPathOf(job[j].output_filename)
        /\ job[j].db_reads <= 2

\* the owner's quality was changed while the encoder of the Job is running
C9_Witness ==
    \E j \in Jobs :
        /\ job[j].pc \in {"read", "wait"}
        /\ db[job[j].user] # None
        /\ "quality" \in db[job[j].user][1].keys
        /\ db[job[j].user][1].quality # job[j].run_quality

\* C10: video_handler never ends by raising: it ends with the Job in a terminal
\* status.
C10_NoEscape ==
    \A j \in Jobs :
        job[j].pc = "done" => ~job[j].raised /\ job[j].status \in Terminal

\* ------------------------------------------------------------ encode_video

\* encode_video waits for a line that the child, blocked on its full stderr
\* pipe, will never write
Stuck == enc.pc = "read" /\ enc.child = "blocked"

\* C11: encode_video is never stuck on a child that only has to be let run to
\* exit, and once it has returned and the child has exited its result is
\* success exactly when the exit status is zero.
C11_ResultIsExitStatus ==
    /\ ~Stuck
    /\ (enc.pc = "returned" /\ enc.child = "exited") =>
           ((enc.result = "True") <=> (enc.rc = 0))

\* C12: encode_video never raises; an unknown quality label and a launch
\* failure end it with the return value False, and so does a non-zero exit
\* status of the child.
C12_FailureIsReturnValue ==
    /\ enc.result # "raised"
    /\ enc.fail \in {"quality", "launch"} =>
           enc.pc = "returned" /\ enc.result = "False"
    /\ (enc.pc = "returned" /\ enc.fail = "" /\ enc.rc # 0) => enc.result = "False"

\* encode_video has returned after create_subprocess_exec raised
C12_Witness ==
    enc.pc = "returned" /\ enc.fail = "launch" /\ enc.result = "False"

\* the progress updates that edit_text delivered, in order
Delivered == SelectSeq(enc.reports, LAMBDA r : r.ok)

\* C13: every percentage shown lies between 0% and 100%.
C13_FractionInUnitInterval ==
    \A i \in DOMAIN Delivered : Delivered[i].pct \in 0..1000

\* C14: the percentages shown during one encode never decrease.
C14_NonDecreasing ==
    \A i, k \in DOMAIN Delivered : i < k => Delivered[i].pct <= Delivered[k].pct

\* C19: two consecutive calls of progress_msg.edit_text in one encode are at
\* least MinInterval seconds apart.
C19_MinIntervalBetweenUpdates ==
    \A i \in DOMAIN enc.reports :
        i > 1 => enc.reports[i].at - enc.reports[i - 1].at >= MinInterval

\* not key=value, a non-numeric out_time_ms, or undecodable bytes
Malformed(l) == ~l.decodable \/ ~l.eq \/ (l.key = "out_time_ms" /\ ~l.num)

\* C20: reading a malformed line changes nothing: no update is sent, the
\* throttle is untouched, encode_video has not returned and is at readline
\* again.
C20_MalformedLineSkipped ==
    [][(enc'.lines = enc.lines + 1 /\ Malformed(enc'.line[1])) =>
          /\ enc'.pc = "read" /\ enc'.result = "none"
          /\ enc'.reports = enc.reports
          /\ enc'.last_update = enc.last_update]_vars

\* ------------------------------------------------------------ output name

\* the name without its last suffix, said directly: what is left of the last
\* "." when that dot is neither the first nor the last character
StemOf(name) ==
    LET dots == {i \in 2..(Len(name) - 1) :
                    name[i] = "." /\ \A k \in (i + 1)..Len(name) : name[k] # "."}
    IN  IF dots = {} THEN name
        ELSE SubSeq(name, 1, (CHOOSE i \in dots : TRUE) - 1)

\* C15: the output name of a Job is its naming override when one is set, else
\* the stem of the original file name, followed by "_", the quality label and
\* ".mp4"; clip.mov at 720p gives clip_720p.mp4 and the override trailer at
\* 480p gives trailer_480p.mp4.
C15_OutputName ==
    /\ \A j \in Jobs :
          job[j].output_filename # <<>> =>
              job[j].output_filename =
                  (IF job[j].settings.custom_name # None
                   THEN job[j].settings.custom_name[1]
                   ELSE StemOf(job[j].file_name))
                  \o <<"_", job[j].settings.quality, ".mp4">>
    /\ generate_output_filename(<<"c", "l", "i", "p", ".", "m", "o", "v">>, "720p", None)
           = <<"c", "l", "i", "p", "_", "720p", ".mp4">>
    /\ generate_output_filename(<<"x", ".", "y">>, "480p", Some(<<"trailer">>))
           = <<"trailer", "_", "480p", ".mp4">>

\* a Job without override whose file name has a suffix has its output name
C15_Witness ==
    \E j \in Jobs :
        /\ job[j].file_name = <<"a", ".", "m">>
        /\ job[j].settings.custom_name = None
        /\ job[j].output_filename = <<"a", "_", "720p", ".mp4">>

\* ------------------------------------------------------------ webhook bridge

\* C16: the handler submits a request at most once and its acknowledgment
\* never waits: whenever the handler is at its return statement the return
\* can be taken, whatever the state of the submitted coroutine.
C16_AckWithoutWaiting ==
    \A r \in Requests :
        /\ req[r].pc = "return" => ENABLED WebhookReturn(r)
        /\ Cardinality({i \in DOMAIN tasks : tasks[i] = r}) <= 1
        /\ req[r].pc = "done" => req[r].acked

\* a request is acknowledged while its coroutine has not started
C16_Witness ==
    \E r \in Requests :
        req[r].acked /\ req[r].submitted /\ ~req[r].started

\* C17: run_coroutine_threadsafe is only ever called with main_loop set; a
\* request that found it unset is not submitted, and its handler returns.
C17_NoUnsetHandle ==
    \A r \in Requests :
        /\ req[r].pc = "submit" => main_loop # "None"
        /\ (req[r].pc \in {"return", "done"} /\ ~req[r].saw_loop) =>
               ~req[r].submitted /\ \A i \in DOMAIN tasks : tasks[i] # r
        /\ req[r].pc = "return" => ENABLED WebhookReturn(r)

\* a request with a payload that found main_loop unset has been answered
C17_Witness ==
    \E r \in Requests :
        req[r].json /\ ~req[r].saw_loop /\ req[r].pc = "done" /\ ~req[r].submitted

\* ------------------------------------------------------------ terminal status

\* C18: a Job in a terminal status keeps that status and the outcome it has.
C18_TerminalIsFinal ==
    [][\A j \in Jobs :
          job[j].status \in Terminal =>
              job'[j].status = job[j].status /\ job'[j].error = job[j].error]_vars

\* ------------------------------------------------------------ suspension points

\* where a handler is inside a long external operation: the download, the
\* probe tool run, reading the encoder's lines, waiting for its exit, the
\* thumbnail download, the upload
LongOps == {"download", "probe", "read", "wait", "dl_thumb", "upload"}

\* C21: while a Job is inside a long external operation, every other Job in
\* flight can take its next step.
C21_LongOpsSuspend ==
    \A i, j \in Jobs :
        (i # j /\ job[i].pc \in LongOps /\ InFlight(j)) => ENABLED JobRun(j)

\* ------------------------------------------------------------ probe adapter

\* a field of an optional section: its value when section and field are
\* there, else zero
FieldOr0(section, name) ==
    IF section = None THEN 0
    ELSE IF section[1][name] = None THEN 0 ELSE section[1][name][1]

\* the first video stream of the probe output, if any
VideoStream(p) ==
    IF p.streams = None THEN None
    ELSE LET v == {i \in DOMAIN p.streams[1] :
                      /\ p.streams[1][i].codec_type = "video"
                      /\ \A k \in 1..(i - 1) : p.streams[1][k].codec_type # "video"}
         IN  IF v = {} THEN None ELSE Some(p.streams[1][CHOOSE i \in v : TRUE])

\* C22: get_video_info returns all zeros for a failed or malformed probe, and
\* otherwise each field with its value when the probe output has it (duration
\* and size in the format section, width and height in the first video
\* stream) and zero when it has not.
C22_FieldsOrZero ==
    enc.probe # None =>
        LET p == enc.probe[1] IN
        enc.info = IF ~p.ok THEN ZeroInfo
                   ELSE [duration |-> FieldOr0(p.format, "duration"),
                         size |-> FieldOr0(p.format, "size"),
                         width |-> FieldOr0(VideoStream(p), "width"),
                         height |-> FieldOr0(VideoStream(p), "height")]

\* ------------------------------------------------------------ cleanup and other Jobs

\* C23: no step removes a file last written by a Job whose handler has not
\* ended with that step, and a Job that is Uploading has its output file on
\* scratch storage.
C23_CleanupOwnFilesOnly ==
    [][/\ \A f \in fs : job'[f.by].pc # "done" => Exists(fs', f.path)
       /\ \A j \in Jobs :
             job'[j].status = "Uploading" => Exists(fs', job'[j].output_path)]_vars

\* ------------------------------------------------------------ webhook payload

\* the processing tasks request r has given rise to, queued or started
TasksOf(r) ==
    Cardinality({i \in DOMAIN tasks : tasks[i] = r}) + (IF req[r].started THEN 1 ELSE 0)

====
